---- MODULE Spec2Model ----
(***************************************************************************)
(* Model of src/utilities.py: the tensor utilities of the gradient         *)
(* inversion attack (grad_dist, get_closest_tokens, get_perplexity,        *)
(* fix_special_tokens, remove_padding).                                    *)
(*                                                                         *)
(* Every function is a call-and-return transformation.  A behaviour is one *)
(* call: Init draws the function and its arguments, the function's action  *)
(* runs the whole body and stores what the caller observes in `out`.       *)
(*                                                                         *)
(* Numbers.  Floating point values are modelled by exact rationals         *)
(* [n, d].  Gradient tensors are flattened integer vectors whose 2-norm is *)
(* an integer; embedding vectors have one component, so that a norm is an  *)
(* absolute value.  Python's None is a record with present = FALSE.        *)
(***************************************************************************)
EXTENDS Integers, Sequences, FiniteSets, TLC

VARIABLES fn, pc, inp, out

vars == <<fn, pc, inp, out>>

\* ---------------------------------------------------------------- bounds
MaxGrads == 2
MaxBatch == 2
MaxSeq == 2
VocabSize == 2
MaxFixSeq == 3
MaxIds == 5

\* ------------------------------------------------------- shared helpers
Abs(x) == IF x < 0 THEN -x ELSE x

Sgn(x) == IF x < 0 THEN -1 ELSE IF x > 0 THEN 1 ELSE 0

Min2(a, b) == IF a < b THEN a ELSE b

Max2(a, b) == IF a > b THEN a ELSE b

RECURSIVE GCD(_, _)
GCD(a, b) == IF b = 0 THEN a ELSE GCD(b, a % b)

\* the rational n/d in lowest terms, d > 0
Rat(n, d) == LET g == GCD(Abs(n), d) IN [n |-> n \div g, d |-> d \div g]

RatAdd(a, b) == Rat(a.n * b.d + b.n * a.d, a.d * b.d)

RatDivInt(a, k) == Rat(a.n, a.d * k)

\* None and a present value
None == [present |-> FALSE, val |-> <<>>]

Some(v) == [present |-> TRUE, val |-> v]

\* ------------------------------------------------------------ grad_dist
RECURSIVE SumSeq(_)
SumSeq(s) == IF s = <<>> THEN 0 ELSE Head(s) + SumSeq(Tail(s))

\* (g1 * g2).sum()
Dot(g1, g2) == SumSeq([k \in 1..Len(g1) |-> g1[k] * g2[k]])

\* g.view(-1).norm(p=2), for vectors whose squared norm is a perfect square
Norm2(g) == LET q == Dot(g, g) IN CHOOSE r \in 0..q : r * r = q

\* (g1 - g2).square().sum()
SqDist(g1, g2) == SumSeq([k \in 1..Len(g1) |-> (g1[k] - g2[k]) * (g1[k] - g2[k])])

\* torch.abs(g1 - g2).sum()
AbsDist(g1, g2) == SumSeq([k \in 1..Len(g1) |-> Abs(g1[k] - g2[k])])

KnownLosses == {"cos", "dlg", "tag"}

\* the term one valid pair adds to ret (the if/elif chain on args.loss)
PairTerm(g1, g2, args) ==
  IF args.loss = "cos"
    THEN LET nn == Norm2(g1) * Norm2(g2) IN Rat(nn - Dot(g1, g2), nn)
  ELSE IF args.loss = "dlg"
    THEN Rat(SqDist(g1, g2), 1)
  ELSE Rat(SqDist(g1, g2) + args.tag_factor * AbsDist(g1, g2), 1)

\* n_g += 1 written one level too shallow: every pair is counted
LoopBodyCountsAll(acc, g1, g2, args) ==
  IF g1.present /\ g2.present
    THEN IF args.loss \in KnownLosses
           THEN [ret |-> RatAdd(acc.ret, PairTerm(g1.val, g2.val, args)),
                 n_g |-> acc.n_g + 1, raised |-> FALSE]
           ELSE [ret |-> acc.ret, n_g |-> acc.n_g, raised |-> TRUE]
    ELSE [ret |-> acc.ret, n_g |-> acc.n_g + 1, raised |-> FALSE]

\* the skip test dropped for one side: a pair counts as soon as g1 is there
\* (an absent g2 then contributes nothing to the sum)
LoopBodyChecksG1Only(acc, g1, g2, args) ==
  IF g1.present
    THEN IF args.loss \in KnownLosses
           THEN [ret |-> IF g2.present
                           THEN RatAdd(acc.ret, PairTerm(g1.val, g2.val, args))
                           ELSE acc.ret,
                 n_g |-> acc.n_g + 1, raised |-> FALSE]
           ELSE [ret |-> acc.ret, n_g |-> acc.n_g, raised |-> TRUE]
    ELSE acc

\* one iteration of the for loop over zip(grads1, grads2)
LoopBody(acc, g1, g2, args) ==
  IF g1.present /\ g2.present
    THEN IF args.loss \in KnownLosses
           THEN [ret |-> RatAdd(acc.ret, PairTerm(g1.val, g2.val, args)),
                 n_g |-> acc.n_g + 1, raised |-> FALSE]
           ELSE [ret |-> acc.ret, n_g |-> acc.n_g, raised |-> TRUE]
    ELSE acc

\* the loop from pair i on; zip stops at the shorter collection, a failed
\* assert leaves the loop
RECURSIVE GradLoop(_, _, _, _, _)
GradLoop(grads1, grads2, args, i, acc) ==
  IF acc.raised \/ i > Min2(Len(grads1), Len(grads2))
    THEN acc
    ELSE GradLoop(grads1, grads2, args, i + 1,
                  LoopBody(acc, grads1[i], grads2[i], args))

Returned(v) == [outcome |-> "return", value |-> v]

Raised(e) == [outcome |-> e, value |-> Rat(0, 1)]

grad_dist(grads1, grads2, args) ==
  LET acc == GradLoop(grads1, grads2, args, 1,
                      [ret |-> Rat(0, 1), n_g |-> 0, raised |-> FALSE])
  IN IF acc.raised THEN Raised("AssertionError")
     ELSE IF args.loss = "cos"
       THEN IF acc.n_g = 0 THEN Raised("ZeroDivisionError")
            ELSE Returned(RatDivInt(acc.ret, acc.n_g))
     ELSE Returned(acc.ret)

\* inputs of a grad_dist call
GradVals == {<<3, 4>>, <<-4, 3>>, <<0, -5>>}

GradOpts == {None} \cup {Some(g) : g \in GradVals}

GradColls == UNION {[1..n -> GradOpts] : n \in 0..MaxGrads}

Losses == {"cos", "dlg", "tag", "l1"}

TagFactors == {1, 3}

GradDistInputs ==
  \E a \in GradColls, b \in GradColls, l \in Losses, t \in TagFactors :
    inp = [grads1 |-> a, grads2 |-> b, args |-> [loss |-> l, tag_factor |-> t]]

GradDist ==
  /\ pc = "call" /\ fn = "grad_dist"
  /\ out' = grad_dist(inp.grads1, inp.grads2, inp.args)
  /\ pc' = "done"
  /\ UNCHANGED <<fn, inp>>

\* --------------------------------------------------- get_closest_tokens
\* Tensors are functions over 0-based index ranges: inputs_embeds[b][s] for
\* b in 0..B-1, s in 0..S-1, embeddings_weight[v] for v in 0..V-1.
Range0(n) == 0..(n - 1)

Dim0(t) == Cardinality(DOMAIN t)

Dim1(t) == Cardinality(DOMAIN t[0])

\* the value written over the excluded columns
Sentinel == 1000000000

KnownMetrics == {"l2", "cos", "grad_align"}

\* the cos branch also made to depend on grads
MetricBranchCosNeedsGrads(metric, grads) ==
  IF metric = "l2" THEN "l2"
  ELSE IF metric = "cos" /\ grads.present THEN "cos"
  ELSE IF metric = "grad_align" /\ grads.present THEN "grad_align"
  ELSE "assert"

\* which arm of the if/elif/else on metric runs
MetricBranch(metric, grads) ==
  IF metric = "l2" THEN "l2"
  ELSE IF metric = "cos" THEN "cos"
  ELSE IF metric = "grad_align" /\ grads.present THEN "grad_align"
  ELSE "assert"

\* torch.cdist(inputs_embeds, embeddings_weight, p=2): [B, S, V]
L2Dist(x, W) ==
  [b \in DOMAIN x |-> [s \in DOMAIN x[b] |-> [v \in DOMAIN W |-> Abs(x[b][s] - W[v])]]]

\* -dp / (norm1 * norm2): [B, S, V].  With one component per vector the
\* quotient is the product of the two unit factors e / |e|.
CosDist(x, W) ==
  [b \in DOMAIN x |-> [s \in DOMAIN x[b] |->
     [v \in DOMAIN W |-> -((x[b][s] \div Abs(x[b][s])) * (W[v] \div Abs(W[v])))]]]

\* Shape of embeddings_weight [B, V, D] - inputs_embeds.unsqueeze(2)
\* [B, S, 1, D].  The left operand is aligned as [1, B, V, D], so the second
\* axis broadcasts B against S: the subtraction needs B = S, B = 1 or S = 1
\* and gives [B, max(B, S), V, D].
BroadcastOK(B, S) == B = S \/ B = 1 \/ S = 1

\* The last axis after directions.view(B, S, -1, D).
ViewedWidth(B, S, V) == (Max2(B, S) * V) \div S

\* -alignment: [B, S, K].  Entry [b, t, v] of the broadcast difference is
\* W[v] - x[b][t] (x[b][0] when S = 1); the view flattens (t, v) into
\* k = t * V + v.  directions / (dir_norms + 1e-8) is the sign of the
\* direction (0 for a zero direction), -grads / (grad_norms + 1e-8) the
\* negated sign of the gradient.
GradAlignDist(x, W, g) ==
  LET B == Dim0(x)
      S == Dim1(x)
      V == Dim0(W)
      K == ViewedWidth(B, S, V)
      flat(s, k) == s * K + k
      Dir(b, s, k) == W[flat(s, k) % V] - x[b][IF S = 1 THEN 0 ELSE flat(s, k) \div V]
  IN [b \in Range0(B) |-> [s \in Range0(S) |->
        [k \in Range0(K) |-> -(Sgn(Dir(b, s, k)) * (-Sgn(g[b][s])))]]]

\* d[:, :, unused_tokens] = 1e9
Exclude(d, unused_tokens) ==
  [b \in DOMAIN d |-> [s \in DOMAIN d[b] |->
     [k \in DOMAIN d[b][s] |-> IF k \in unused_tokens THEN Sentinel ELSE d[b][s][k]]]]

\* index of the minimum along the last axis, first occurrence
ArgMin(row) ==
  CHOOSE k \in DOMAIN row :
    /\ \A j \in DOMAIN row : row[k] <= row[j]
    /\ \A j \in DOMAIN row : j < k => row[j] > row[k]

GctRaised(e) == [outcome |-> e, d |-> <<>>, token_indices |-> <<>>]

get_closest_tokens(inputs_embeds, unused_tokens, embeddings_weight, grads, metric) ==
  LET branch == MetricBranch(metric, grads)
      B == Dim0(inputs_embeds)
      S == Dim1(inputs_embeds)
  IN IF branch = "assert" THEN GctRaised("AssertionError")
     ELSE IF branch = "grad_align" /\ ~BroadcastOK(B, S) THEN GctRaised("RuntimeError")
     ELSE LET d0 == IF branch = "l2" THEN L2Dist(inputs_embeds, embeddings_weight)
                    ELSE IF branch = "cos" THEN CosDist(inputs_embeds, embeddings_weight)
                    ELSE GradAlignDist(inputs_embeds, embeddings_weight, grads.val)
              d == Exclude(d0, unused_tokens)
          IN [outcome |-> "return", d |-> d,
              token_indices |-> [b \in DOMAIN d |-> [s \in DOMAIN d[b] |-> ArgMin(d[b][s])]]]

\* inputs of a get_closest_tokens call
XVals == {-2, 3}

EmbVals == {1, 1500000000}

GctGradVals == {-1, 2}

Tensors(B, S, vals) == [Range0(B) -> [Range0(S) -> vals]]

Shapes == (1..MaxBatch) \X (1..MaxSeq)

Metrics == {"l2", "cos", "grad_align", "dot"}

\* grads has the shape of inputs_embeds; the same gradient at every position
GradTensors(B, S) == {[b \in Range0(B) |-> [s \in Range0(S) |-> g]] : g \in GctGradVals}

GctInputs ==
  \E sh \in Shapes :
    \E x \in Tensors(sh[1], sh[2], XVals),
       u \in SUBSET Range0(VocabSize),
       W \in [Range0(VocabSize) -> EmbVals],
       g \in {None} \cup {Some(t) : t \in GradTensors(sh[1], sh[2])},
       m \in Metrics :
      inp = [inputs_embeds |-> x, unused_tokens |-> u, embeddings_weight |-> W,
             grads |-> g, metric |-> m]

GetClosestTokens ==
  /\ pc = "call" /\ fn = "get_closest_tokens"
  /\ out' = get_closest_tokens(inp.inputs_embeds, inp.unused_tokens,
                               inp.embeddings_weight, inp.grads, inp.metric)
  /\ pc' = "done"
  /\ UNCHANGED <<fn, inp>>

\* ------------------------------------------------------- get_perplexity
\* def get_closest_tokens(inputs_embeds, unused_tokens, embeddings_weight,
\*                        grads=None, metric='cos')
GctParams == <<"inputs_embeds", "unused_tokens", "embeddings_weight", "grads", "metric">>

GctDefaults == [grads |-> None, metric |-> "cos"]

\* the arguments the call in get_perplexity passes, all positional
PerplexityCallArgs == <<"x_embeds", "bert_embeddings_weight">>

\* required parameters a call with npos positional arguments leaves unbound
MissingParams(npos) ==
  {GctParams[i] : i \in (npos + 1)..Len(GctParams)} \ DOMAIN GctDefaults

\* The call binds x_embeds to inputs_embeds and bert_embeddings_weight to
\* unused_tokens.  A call that leaves a required parameter unbound raises
\* TypeError before the callee runs; the softmax, the bmm and the GPT-2
\* forward pass come after the call.
get_perplexity(x_embeds, bert_embeddings_weight, gpt2_embeddings_weight) ==
  IF MissingParams(Len(PerplexityCallArgs)) # {}
    THEN [outcome |-> "TypeError", missing |-> MissingParams(Len(PerplexityCallArgs)),
          reached_gpt2 |-> FALSE]
    ELSE [outcome |-> "return", missing |-> {}, reached_gpt2 |-> TRUE]

PerplexityInputs ==
  \E sh \in Shapes :
    \E x \in Tensors(sh[1], sh[2], XVals),
       W \in [Range0(VocabSize) -> EmbVals],
       G \in [Range0(VocabSize) -> EmbVals] :
      inp = [x_embeds |-> x, bert_embeddings_weight |-> W, gpt2_embeddings_weight |-> G]

GetPerplexity ==
  /\ pc = "call" /\ fn = "get_perplexity"
  /\ out' = get_perplexity(inp.x_embeds, inp.bert_embeddings_weight,
                           inp.gpt2_embeddings_weight)
  /\ pc' = "done"
  /\ UNCHANGED <<fn, inp>>

\* --------------------------------------------------- fix_special_tokens
BERT_PAD_TOKEN == 0

BERT_CLS_TOKEN == 101

BERT_SEP_TOKEN == 102

\* a negative Python index counts from the end
PyIdx(i, n) == IF i < 0 THEN i + n ELSE i

\* the first write left out
WriteClsMissing(x, W) == x

\* x_embeds.data[:, 0] = bert_embeddings_weight[BERT_CLS_TOKEN]
WriteCls(x, W) ==
  [b \in DOMAIN x |-> [s \in DOMAIN x[b] |-> IF s = 0 THEN W[BERT_CLS_TOKEN] ELSE x[b][s]]]

\* the body of the loop over sen_id, on one row with boundary p
WritePadSep(row, p, W) ==
  LET S == Cardinality(DOMAIN row)
      padded == [s \in DOMAIN row |-> IF s >= p THEN W[BERT_PAD_TOKEN] ELSE row[s]]
  IN [s \in DOMAIN row |-> IF s = PyIdx(p - 1, S) THEN W[BERT_SEP_TOKEN] ELSE padded[s]]

\* the end embedding written one position early
WriteLastSepOffByOne(x, W) ==
  [b \in DOMAIN x |-> [s \in DOMAIN x[b] |->
     IF s = Max2(0, Dim1(x) - 2) THEN W[BERT_SEP_TOKEN] ELSE x[b][s]]]

\* x_embeds.data[:, -1] = bert_embeddings_weight[BERT_SEP_TOKEN]
WriteLastSep(x, W) ==
  [b \in DOMAIN x |-> [s \in DOMAIN x[b] |->
     IF s = PyIdx(-1, Dim1(x)) THEN W[BERT_SEP_TOKEN] ELSE x[b][s]]]

fix_special_tokens(x_embeds, bert_embeddings_weight, pads) ==
  LET x1 == WriteCls(x_embeds, bert_embeddings_weight)
  IN IF pads.present
       THEN [b \in DOMAIN x1 |-> WritePadSep(x1[b], pads.val[b], bert_embeddings_weight)]
     ELSE IF Dim0(x_embeds) = 1
       THEN WriteLastSep(x1, bert_embeddings_weight)
     ELSE x1

\* inputs of a fix_special_tokens call: the three rows of the embedding
\* matrix the function reads, and embeddings that may already equal them
BertRows == [t \in {BERT_PAD_TOKEN, BERT_CLS_TOKEN, BERT_SEP_TOKEN} |-> 10 + (t % 100)]

FixVals == {7, 11}

FixShapes == (1..MaxBatch) \X (1..MaxFixSeq)

FixInputs ==
  \E sh \in FixShapes :
    \E x \in Tensors(sh[1], sh[2], FixVals),
       p \in {None} \cup {Some(q) : q \in [Range0(sh[1]) -> 0..sh[2]]} :
      inp = [x_embeds |-> x, bert_embeddings_weight |-> BertRows, pads |-> p]

\* the tensor is changed in place and returned
FixSpecialTokens ==
  /\ pc = "call" /\ fn = "fix_special_tokens"
  /\ out' = fix_special_tokens(inp.x_embeds, inp.bert_embeddings_weight, inp.pads)
  /\ pc' = "done"
  /\ UNCHANGED <<fn, inp>>

\* ------------------------------------------------------- remove_padding
\* the scan run from the front instead: the first end token of the sequence
ScanFront(ids, i) ==
  IF \E j \in 1..(i + 1) : ids[j] = BERT_SEP_TOKEN
    THEN (CHOOSE j \in 1..(i + 1) :
            ids[j] = BERT_SEP_TOKEN /\ \A k \in 1..(j - 1) : ids[k] # BERT_SEP_TOKEN) - 1
    ELSE -1

\* for i in range(n - 1, -1, -1): the index of the first end token met when
\* scanning backward from 0-based index i, or -1 when the loop runs out
RECURSIVE ScanBack(_, _)
ScanBack(ids, i) ==
  IF i < 0 THEN -1
  ELSE IF ids[i + 1] = BERT_SEP_TOKEN THEN i
  ELSE ScanBack(ids, i - 1)

\* tokenizer.decode: the text of each id, in order
TokenText(t) ==
  IF t = BERT_SEP_TOKEN THEN "[SEP]"
  ELSE IF t = BERT_CLS_TOKEN THEN "[CLS]"
  ELSE IF t = BERT_PAD_TOKEN THEN "[PAD]"
  ELSE ToString(t)

Decode(ids) == [k \in 1..Len(ids) |-> TokenText(ids[k])]

remove_padding(ids) ==
  LET i == ScanBack(ids, Len(ids) - 1)
  IN IF i >= 0 THEN Decode(SubSeq(ids, 1, i + 1)) ELSE Decode(ids)

IdVals == {5, 7, 9, BERT_SEP_TOKEN}

RemovePaddingInputs ==
  \E n \in 0..MaxIds : \E s \in [1..n -> IdVals] : inp = [ids |-> s]

RemovePadding ==
  /\ pc = "call" /\ fn = "remove_padding"
  /\ out' = remove_padding(inp.ids)
  /\ pc' = "done"
  /\ UNCHANGED <<fn, inp>>

\* -------------------------------------------------------- specification
Init ==
  /\ pc = "call"
  /\ out = Raised("none")
  /\ \/ fn = "grad_dist" /\ GradDistInputs
     \/ fn = "get_closest_tokens" /\ GctInputs
     \/ fn = "get_perplexity" /\ PerplexityInputs
     \/ fn = "fix_special_tokens" /\ FixInputs
     \/ fn = "remove_padding" /\ RemovePaddingInputs

Next ==
  \/ GradDist
  \/ GetClosestTokens
  \/ GetPerplexity
  \/ FixSpecialTokens
  \/ RemovePadding

Spec == Init /\ [][Next]_vars

\* --------------------------------------------------------------- claims
Done(f) == fn = f /\ pc = "done"

\* C1: get_closest_tokens never returns, at any batch element and position,
\* a token index that is a member of unused_tokens.
C1_NeverSelectsExcluded ==
  (Done("get_closest_tokens") /\ out.outcome = "return") =>
    \A b \in DOMAIN out.token_indices : \A s \in DOMAIN out.token_indices[b] :
      out.token_indices[b][s] \notin inp.unused_tokens

\* C2 as stated: with pads = None and a batch of one sequence, every position
\* except the last is unchanged and the last holds the end embedding.
C2_OnlyLastChanged ==
  (Done("fix_special_tokens") /\ ~inp.pads.present /\ Dim0(inp.x_embeds) = 1) =>
    \A s \in DOMAIN out[0] :
      out[0][s] = IF s = Dim1(inp.x_embeds) - 1
                    THEN inp.bert_embeddings_weight[BERT_SEP_TOKEN]
                    ELSE inp.x_embeds[0][s]

\* C2 amended: with pads = None and a batch of one sequence, the last position
\* holds the end embedding, position 0 (when it is not the last) holds the
\* start embedding, and every position in between is unchanged.
C2_FirstAndLastChanged ==
  (Done("fix_special_tokens") /\ ~inp.pads.present /\ Dim0(inp.x_embeds) = 1) =>
    \A s \in DOMAIN out[0] :
      out[0][s] = IF s = Dim1(inp.x_embeds) - 1
                    THEN inp.bert_embeddings_weight[BERT_SEP_TOKEN]
                  ELSE IF s = 0
                    THEN inp.bert_embeddings_weight[BERT_CLS_TOKEN]
                  ELSE inp.x_embeds[0][s]

C2_Witness ==
  /\ Done("fix_special_tokens") /\ ~inp.pads.present
  /\ Dim0(inp.x_embeds) = 1 /\ Dim1(inp.x_embeds) = 3
  /\ inp.x_embeds[0][0] # inp.bert_embeddings_weight[BERT_CLS_TOKEN]
  /\ out[0][0] = inp.bert_embeddings_weight[BERT_CLS_TOKEN]
  /\ out[0][1] = inp.x_embeds[0][1]
  /\ out[0][2] = inp.bert_embeddings_weight[BERT_SEP_TOKEN]

\* C3 as stated: after fix_special_tokens position 0 of every sequence holds
\* the start embedding, whatever pads is.
C3_FirstIsAlwaysCls ==
  Done("fix_special_tokens") =>
    \A b \in DOMAIN out : out[b][0] = inp.bert_embeddings_weight[BERT_CLS_TOKEN]

\* C3 amended: position 0 of sequence b holds the start embedding when pads
\* is given with pads[b] >= 2, or when pads is None and the input is not a
\* single sequence of length 1.
C3_FirstIsClsUnlessOverwritten ==
  Done("fix_special_tokens") =>
    \A b \in DOMAIN out :
      (IF inp.pads.present THEN inp.pads.val[b] >= 2
       ELSE ~(Dim0(inp.x_embeds) = 1 /\ Dim1(inp.x_embeds) = 1))
        => out[b][0] = inp.bert_embeddings_weight[BERT_CLS_TOKEN]

C3_Witness ==
  /\ Done("fix_special_tokens") /\ inp.pads.present
  /\ \E b \in DOMAIN out :
       /\ inp.pads.val[b] >= 2
       /\ inp.x_embeds[b][0] # inp.bert_embeddings_weight[BERT_CLS_TOKEN]
       /\ out[b][0] = inp.bert_embeddings_weight[BERT_CLS_TOKEN]

\* positions of the end token id in ids
SepPositions(ids) == {j \in 1..Len(ids) : ids[j] = BERT_SEP_TOKEN}

SetMax(S) == CHOOSE m \in S : \A j \in S : j <= m

\* C4: remove_padding decodes exactly the prefix of ids that ends with the
\* last end token id, and the whole of ids when there is no end token id.
C4_DecodesPrefixToLastSep ==
  Done("remove_padding") =>
    out = IF SepPositions(inp.ids) = {} THEN Decode(inp.ids)
          ELSE Decode(SubSeq(inp.ids, 1, SetMax(SepPositions(inp.ids))))

C4_Witness ==
  /\ Done("remove_padding")
  /\ inp.ids = <<5, BERT_SEP_TOKEN, 7, BERT_SEP_TOKEN, 9>>
  /\ out = <<"5", "[SEP]", "7", "[SEP]">>

\* C5: grad_dist with a loss outside 'cos', 'dlg', 'tag' always ends in an
\* assertion failure, whatever the two gradient collections are.
C5_UnknownLossAlwaysAsserts ==
  (Done("grad_dist") /\ inp.args.loss \notin KnownLosses) =>
    out.outcome = "AssertionError"

\* the positions at which both collections hold a gradient
ValidPairs(grads1, grads2) ==
  {i \in 1..Min2(Len(grads1), Len(grads2)) : grads1[i].present /\ grads2[i].present}

\* C6: on equal-length collections with no pair present on both sides,
\* grad_dist returns 0 for 'dlg' and 'tag' and ends in a division by zero
\* for 'cos'.
C6_AllAbsentPairs ==
  (/\ Done("grad_dist")
   /\ Len(inp.grads1) = Len(inp.grads2)
   /\ ValidPairs(inp.grads1, inp.grads2) = {}) =>
    /\ inp.args.loss \in {"dlg", "tag"} => out = Returned(Rat(0, 1))
    /\ inp.args.loss = "cos" => out.outcome = "ZeroDivisionError"

C6_Witness ==
  /\ Done("grad_dist")
  /\ Len(inp.grads1) = 2 /\ Len(inp.grads2) = 2
  /\ ValidPairs(inp.grads1, inp.grads2) = {}
  /\ inp.grads1[1].present /\ inp.grads2[2].present
  /\ inp.args.loss = "cos"
  /\ out.outcome = "ZeroDivisionError"

\* the metric summed over a set of positions
RECURSIVE SumTerms(_, _, _, _)
SumTerms(I, grads1, grads2, args) ==
  IF I = {} THEN Rat(0, 1)
  ELSE LET i == CHOOSE j \in I : TRUE
       IN RatAdd(PairTerm(grads1[i].val, grads2[i].val, args),
                 SumTerms(I \ {i}, grads1, grads2, args))

\* C7: the result of grad_dist is the metric accumulated over the pairs with
\* both sides present only; 'cos' divides that sum by the number of such
\* pairs, 'dlg' and 'tag' return the plain sum.
C7_SkipsAbsentPairs ==
  (/\ Done("grad_dist")
   /\ Len(inp.grads1) = Len(inp.grads2)
   /\ inp.args.loss \in KnownLosses
   /\ (inp.args.loss = "cos" => ValidPairs(inp.grads1, inp.grads2) # {})) =>
    LET I == ValidPairs(inp.grads1, inp.grads2)
        total == SumTerms(I, inp.grads1, inp.grads2, inp.args)
    IN out = Returned(IF inp.args.loss = "cos"
                        THEN RatDivInt(total, Cardinality(I)) ELSE total)

C7_Witness ==
  /\ Done("grad_dist")
  /\ Len(inp.grads1) = 2 /\ Len(inp.grads2) = 2
  /\ Cardinality(ValidPairs(inp.grads1, inp.grads2)) = 1
  /\ inp.grads1[1].present /\ ~inp.grads2[1].present
  /\ inp.args.loss = "cos"
  /\ out = Returned(Rat(9, 5))

\* C8: get_closest_tokens ends in an assertion failure exactly when the
\* metric is not 'l2', 'cos' or 'grad_align', or it is 'grad_align' and grads
\* is None; with 'l2' and 'cos' it returns whether grads is given or not.
C8_AssertsExactlyOnBadMetric ==
  Done("get_closest_tokens") =>
    /\ out.outcome = "AssertionError" <=>
         \/ inp.metric \notin KnownMetrics
         \/ inp.metric = "grad_align" /\ ~inp.grads.present
    /\ inp.metric \in {"l2", "cos"} => out.outcome = "return"

C8_Witness ==
  /\ Done("get_closest_tokens")
  /\ inp.metric = "grad_align" /\ ~inp.grads.present
  /\ out.outcome = "AssertionError"

\* C9: get_perplexity gets past its call to get_closest_tokens, reaches the
\* forward pass of the second model and returns a score.
C9_PerplexityReturns ==
  Done("get_perplexity") => out.outcome = "return" /\ out.reached_gpt2

\* C10: with pad boundaries given, every sequence b with boundary p holds the
\* pad embedding at every position >= p and the end embedding at position
\* p - 1 when that position exists.
C10_PadAndSepAtBoundary ==
  (Done("fix_special_tokens") /\ inp.pads.present) =>
    \A b \in DOMAIN out :
      LET p == inp.pads.val[b]
      IN /\ \A s \in DOMAIN out[b] :
              s >= p => out[b][s] = inp.bert_embeddings_weight[BERT_PAD_TOKEN]
         /\ p >= 1 => out[b][p - 1] = inp.bert_embeddings_weight[BERT_SEP_TOKEN]
====
